---- MODULE Spec2Model ----
(***************************************************************************)
(* A model of the ComfyUI tools of wspotter/Alf:                           *)
(*   src/mcpart/tools/comfyui_tools.py   ComfyUIClient and the tool        *)
(*                                       functions built on it             *)
(*   src/mcpart/tools/comfyui_bridge.py  the command-line bridge           *)
(*                                                                         *)
(* Python dicts are functions with a domain of strings, Python strings are *)
(* TLA+ strings (searched and lower-cased character by character), and a   *)
(* float such as cfg = 6.5 is held in tenths (65).  A seed of              *)
(* random.randint(0, 2**32 - 1) is held as <<hi, lo>>, its two 16-bit      *)
(* halves, because 2^32 - 1 does not fit the model checker's integers.     *)
(***************************************************************************)
EXTENDS Integers, Sequences, FiniteSets, TLC

VARIABLES
    template,   \* update_workflow_params: the template file's parsed content
    request,    \* the generation request (prompt, negative_prompt, width, ...)
    wf1,        \* the graph of the first fresh load (injected once done1)
    wf2,        \* the graph of the second fresh load (injected once done2)
    done1,      \* update_workflow_params has run on wf1
    done2,      \* update_workflow_params has run on wf2
    entry,          \* the method called: "none", "generate", "wait"
    pc,             \* where the call is: "idle", "load", "inject", "submit",
                    \* "wait" (the while test), "recv" (GET /history in flight),
                    \* "sleep", "fetch", "done"
    workflow_dir,   \* the template directory: file name -> content
    workflow_name,  \* generate's workflow_name
    loaded,         \* generate's local `workflow`
    prompt_id,      \* the job id polled
    timeout,        \* wait_for_completion's timeout
    start_time,     \* wait_for_completion's start_time
    now,            \* time.time()
    history,        \* what wait_for_completion returned
    result,         \* how the call ended: a return value or a raised exception
    subResp,        \* the engine's answer to POST /prompt
    pollResp,       \* the engine's answer to the last GET /history/<id>
    viewReq,        \* the params of the GET /view sent
    viewResp,       \* the engine's answer to GET /view
    nPost,          \* POST /prompt requests sent
    nPoll,          \* GET /history requests sent (counted up to PollCap)
    nView,          \* GET /view requests sent
    posted,         \* the payloads' "prompt" sent to POST /prompt
    polled,         \* the job ids GET /history was sent for
    pollAfterFail,  \* a GET /history was sent after one that had failed
    onlyPending,    \* every answer to GET /history so far was a success that
                    \* held no outputs for prompt_id
    begun,          \* the steps begun, in order
    output_dir,     \* the output directory: file name -> bytes
    bpc,            \* comfyui_bridge.main: "idle", "call" (tool_func is entered),
                    \* "tool" (generate_image is in client.generate), "queue"
                    \* (check_comfyui_status is before its second read), "done"
    argv,           \* sys.argv: whether both arguments are there, the tool
                    \* name, the arguments' JSON text
    ret,            \* what tool_func(**args) returned or raised
    out,            \* the JSON object main printed
    exit_code,      \* the process's exit status
    statsResp,      \* the engine's answer to GET /system_stats
    queueResp,      \* the engine's answer to GET /queue
    calls,          \* two generate calls run side by side: caller -> the
                    \* call's locals and where it is
    writes          \* the writes into the output directory made by those
                    \* calls, in the order made

ivars == <<template, request, wf1, wf2, done1, done2>>

gvars == <<entry, pc, workflow_dir, workflow_name, loaded, prompt_id, timeout,
           start_time, now, history, result, subResp, pollResp, viewReq,
           viewResp, nPost, nPoll, nView, posted, polled, pollAfterFail, onlyPending,
           begun, output_dir>>

bvars == <<bpc, argv, ret, out, exit_code, statsResp, queueResp>>

cvars == <<calls, writes>>

vars == <<ivars, gvars, bvars, cvars>>

-----------------------------------------------------------------------------
(* Python strings and dicts *)

UpperChars == "ABCDEFGHIJKLMNOPQRSTUVWXYZ"

LowerChars == "abcdefghijklmnopqrstuvwxyz"

\* str.lower() of one character
LowerChar(c) ==
    IF \E i \in 1..Len(UpperChars) : SubSeq(UpperChars, i, i) = c
    THEN LET i == CHOOSE j \in 1..Len(UpperChars) : SubSeq(UpperChars, j, j) = c
         IN  SubSeq(LowerChars, i, i)
    ELSE c

RECURSIVE Lower(_)
\* str.lower()
Lower(s) ==
    IF Len(s) = 0 THEN s
    ELSE LowerChar(SubSeq(s, 1, 1)) \o Lower(SubSeq(s, 2, Len(s)))

\* Python's `sub in s` on strings
Contains(sub, s) ==
    \E i \in 1..(Len(s) - Len(sub) + 1) : SubSeq(s, i, i + Len(sub) - 1) = sub

\* the empty dict {}
EmptyDict == <<>>

\* dict.get(k, default)
Get(d, k, default) == IF k \in DOMAIN d THEN d[k] ELSE default

\* a slip: the inputs dict is replaced by one that holds the key alone
SetInputReplacesInputs(node, k, v) == [node EXCEPT !["inputs"] = (k :> v)]

\* node["inputs"][k] = v
SetInput(node, k, v) == [node EXCEPT !["inputs"] = (k :> v) @@ @]

-----------------------------------------------------------------------------
(* random.randint(0, 2**32 - 1) *)

Two16 == 65536

\* the values random.randint(0, 2**32 - 1) is drawn from in the model: both
\* ends of the range, 0 and 2^32 - 1
RandomSeeds == {<<0, 0>>, <<Two16 - 1, Two16 - 1>>}

\* 0 <= seed <= 2^32 - 1, on the two halves
SeedInRange(seed) == seed[1] \in 0..(Two16 - 1) /\ seed[2] \in 0..(Two16 - 1)

-----------------------------------------------------------------------------
(* ComfyUIClient.update_workflow_params *)

\* a text encoder that takes the positive prompt (the `if` of line 45)
IsPositive(node_id, meta_title) ==
    Contains("positive", Lower(meta_title)) \/ Contains("prompt", Lower(node_id))

\* a text encoder that takes the negative prompt (the `elif` of line 47)
IsNegative(node_id, meta_title) ==
    ~IsPositive(node_id, meta_title) /\ Contains("negative", Lower(meta_title))

\* the CLIPTextEncode branch
UpdateTextEncoder(node_id, node, prompt, negative_prompt) ==
    LET meta_title == Get(Get(node, "_meta", EmptyDict), "title", "")
    IN  IF IsPositive(node_id, meta_title) THEN SetInput(node, "text", prompt)
        ELSE IF IsNegative(node_id, meta_title)
             THEN SetInput(node, "text", negative_prompt)
             ELSE node

\* the class types of the latent-image branch
LatentKindsOnlyBase == {"EmptyLatentImage"}

LatentKinds == {"EmptyLatentImage", "EmptySD3LatentImage"}

\* the latent-image branch
UpdateLatent(node, width, height) ==
    SetInput(SetInput(node, "width", width), "height", height)

\* a slip: the random draw lands in steps, and the seed is written after it
UpdateSamplerSeedInSteps(node, steps, cfg, seed) ==
    SetInput(SetInput(SetInput(node, "steps", seed[2]), "cfg", cfg), "seed", seed)

\* the KSampler branch
UpdateSampler(node, steps, cfg, seed) ==
    SetInput(SetInput(SetInput(node, "steps", steps), "cfg", cfg), "seed", seed)

\* the body of the loop over workflow.items(), for one node
UpdateNode(node_id, node, req, seed) ==
    LET class_type == Get(node, "class_type", "")
    IN  IF class_type = "CLIPTextEncode"
        THEN UpdateTextEncoder(node_id, node, req.prompt, req.negative_prompt)
        ELSE IF class_type \in LatentKinds
        THEN UpdateLatent(node, req.width, req.height)
        ELSE IF class_type = "KSampler"
        THEN UpdateSampler(node, req.steps, req.cfg, seed)
        ELSE node

\* the nodes for which the loop draws a seed
SamplerIds(workflow) ==
    {id \in DOMAIN workflow : Get(workflow[id], "class_type", "") = "KSampler"}

\* update_workflow_params(workflow, ...); seeds[id] is the draw made at node id
update_workflow_params(workflow, req, seeds) ==
    [id \in DOMAIN workflow |->
        UpdateNode(id, workflow[id], req,
                   IF id \in DOMAIN seeds THEN seeds[id] ELSE <<0, 0>>)]

-----------------------------------------------------------------------------
(* The inputs of update_workflow_params: graphs and requests *)

MaxNodes == 2

NodeIds == {"7", "neg_prompt", "Prompt_1"}

Titles == {"Positive", "negative", "CLIP Text Encode (Negative Prompt)",
           "Prompt", "Text"}

TextInputs == [text |-> "template text", clip |-> "4"]

TextEncoders ==
    {[class_type |-> "CLIPTextEncode", inputs |-> TextInputs]}
    \cup {("class_type" :> "CLIPTextEncode") @@ ("inputs" :> TextInputs)
          @@ ("_meta" :> [title |-> t]) : t \in Titles}

LatentNodes ==
    {[class_type |-> k,
      inputs |-> [width |-> 512, height |-> 768, batch_size |-> 1]] :
        k \in {"EmptyLatentImage", "EmptySD3LatentImage"}}

SamplerInputs ==
    [seed |-> <<0, 7>>, steps |-> 8, cfg |-> 80, sampler_name |-> "euler"]

SamplerNodes == {[class_type |-> "KSampler", inputs |-> SamplerInputs]}

OtherNodes ==
    {[class_type |-> "KSamplerAdvanced", inputs |-> SamplerInputs],
     [inputs |-> [text |-> "a note", width |-> 64]]}

NodeShapes == TextEncoders \cup LatentNodes \cup SamplerNodes \cup OtherNodes

\* the parsed templates: every graph of at most MaxNodes nodes
Graphs ==
    UNION {[ids -> NodeShapes] :
             ids \in {s \in SUBSET NodeIds : Cardinality(s) <= MaxNodes}}

Requests ==
    {[prompt |-> "a cat", negative_prompt |-> "blurry",
      width |-> 832, height |-> 1216, steps |-> 25, cfg |-> 65],
     [prompt |-> "a dog", negative_prompt |-> "",
      width |-> 1024, height |-> 1024, steps |-> 20, cfg |-> 70]}

-----------------------------------------------------------------------------
(* HTTP and the engine's answers *)

None == [kind |-> "none"]

Return(v) == [kind |-> "return", value |-> v]

Raise(e) == [kind |-> "raise", exc |-> e]

Continue == [kind |-> "continue"]

\* requests.get / requests.post raised: no connection
ConnFail == [kind |-> "raise"]

\* a response arrived: ok is "the status is not 4xx/5xx"
Resp(ok, body) == [kind |-> "response", ok |-> ok, body |-> body]

\* a body response.json() cannot parse
NotJson == [json |-> FALSE]

Json(v) == [json |-> TRUE, val |-> v]

NoResp == [kind |-> "none"]

JobIds == {"job-a", "job-b"}

OtherJob(id) == CHOOSE j \in JobIds : j # id

PollInterval == 2

DefaultTimeout == 300

\* the longest a request takes, in the time units of time.time()
MaxPollDur == 2

\* the largest timeout a direct call of wait_for_completion passes
MaxTimeout == 4

Timeouts == (-1)..MaxTimeout

\* nPoll counts to PollCap: PollCap stands for "PollCap or more"
PollCap == 3

\* history[prompt_id]["outputs"]: the node outputs in the engine's order
ImageOutputs ==
    {<<[images |-> <<[filename |-> "x.png", subfolder |-> ""]>>]>>,
     <<[text |-> <<"caption">>],
       [images |-> <<>>],
       [images |-> <<[filename |-> "y.png", subfolder |-> "sub"],
                     [filename |-> "x.png", subfolder |-> ""]>>],
       [images |-> <<[filename |-> "x.png", subfolder |-> ""]>>]>>}

NoImageOutputs == {<<>>, <<[text |-> <<"caption">>], [images |-> <<>>]>>}

\* the bodies GET /history/<id> answers with
HistoryBodies(id) ==
    {Json(EmptyDict),
     Json(OtherJob(id) :> [outputs |-> <<[text |-> <<"caption">>]>>]),
     Json(id :> [prompt |-> "queued"])}
    \cup {Json(id :> [prompt |-> "queued", outputs |-> o]) :
            o \in ImageOutputs \cup NoImageOutputs}

PollResponses(id) ==
    {ConnFail, Resp(TRUE, NotJson), Resp(FALSE, NotJson),
     Resp(FALSE, Json([error |-> "internal"]))}
    \cup {Resp(TRUE, b) : b \in HistoryBodies(id)}

SubmitResponses ==
    {ConnFail, Resp(TRUE, NotJson), Resp(FALSE, NotJson),
     Resp(FALSE, Json([error |-> "invalid prompt"])),
     Resp(TRUE, Json(EmptyDict))}
    \cup {Resp(TRUE, Json([prompt_id |-> j])) : j \in JobIds}

\* the answers of GET /view: content is the raw payload
ViewResponses ==
    {ConnFail, [kind |-> "response", ok |-> FALSE, content |-> "not found"]}
    \cup {[kind |-> "response", ok |-> TRUE, content |-> c] : c \in {"png-1", "png-2 and more"}}

-----------------------------------------------------------------------------
(* ComfyUIClient *)

\* a slip: a missing file loads as an empty graph
load_workflowMissingIsEmpty(dir, name) ==
    IF name \notin DOMAIN dir.files THEN Return(EmptyDict)
    ELSE IF ~dir.files[name].json THEN Raise("JSONDecodeError")
    ELSE Return(dir.files[name].val)

\* load_workflow(workflow_name)
load_workflow(dir, name) ==
    IF name \notin DOMAIN dir.files THEN Raise("FileNotFoundError")
    ELSE IF ~dir.files[name].json THEN Raise("JSONDecodeError")
    ELSE Return(dir.files[name].val)

\* a slip: the client_id of line 67 is returned in place of the prompt_id
queue_promptReturnsClientId(resp) ==
    IF resp.kind = "raise" THEN Raise("ConnectionError")
    ELSE IF ~resp.ok THEN Raise("HTTPError")
    ELSE IF ~resp.body.json THEN Raise("JSONDecodeError")
    ELSE IF "prompt_id" \notin DOMAIN resp.body.val THEN Raise("KeyError")
    ELSE Return("client-uuid4")

\* queue_prompt: what the answer to POST /prompt makes of the call
queue_prompt(resp) ==
    IF resp.kind = "raise" THEN Raise("ConnectionError")
    ELSE IF ~resp.ok THEN Raise("HTTPError")
    ELSE IF ~resp.body.json THEN Raise("JSONDecodeError")
    ELSE IF "prompt_id" \notin DOMAIN resp.body.val THEN Raise("KeyError")
    ELSE Return(resp.body.val["prompt_id"])

\* a slip: the job's entry alone is taken for completion
HasOutputsKeyOnly(hist, id) == id \in DOMAIN hist

\* a variant: empty outputs are not taken for completion
HasOutputsNonEmpty(hist, id) ==
    id \in DOMAIN hist /\ "outputs" \in DOMAIN hist[id] /\ hist[id]["outputs"] # <<>>

\* the test of lines 83-86 on a parsed history
HasOutputs(hist, id) == id \in DOMAIN hist /\ "outputs" \in DOMAIN hist[id]

\* wait_for_completion, lines 80-86: what one answer to GET /history/<id> makes
\* of the loop (the status of the response is not looked at)
PollOutcome(resp, id) ==
    IF resp.kind = "raise" THEN Raise("ConnectionError")
    ELSE IF ~resp.body.json THEN Raise("JSONDecodeError")
    ELSE IF HasOutputs(resp.body.val, id) THEN Return(resp.body.val[id])
    ELSE Continue

\* a slip: the while test lets a poll start with the timeout just reached
BeforeDeadlineInclusive(t, start, tmo) == t - start <= tmo

\* the while test of line 79
BeforeDeadline(t, start, tmo) == t - start < tmo

RECURSIVE ImageInfosLastNodeFirst(_)
\* a slip: the output nodes are visited from the last one back
ImageInfosLastNodeFirst(outputs) ==
    IF outputs = <<>> THEN <<>>
    ELSE ImageInfosLastNodeFirst(Tail(outputs))
         \o (IF "images" \in DOMAIN Head(outputs) THEN Head(outputs)["images"] ELSE <<>>)

RECURSIVE ImageInfos(_)
\* get_image_path's two loops: the img_info records in the order visited
ImageInfos(outputs) ==
    IF outputs = <<>> THEN <<>>
    ELSE (IF "images" \in DOMAIN Head(outputs) THEN Head(outputs)["images"] ELSE <<>>)
         \o ImageInfos(Tail(outputs))

\* output_dir / filename
PathOf(filename) == [dir |-> "outputs/comfyui", name |-> filename]

\* a slip: a file that is already there is kept
write_bytesKeepsExisting(dir, filename, content) == dir @@ (filename :> content)

\* output_path.write_bytes(response.content): the directory afterwards
write_bytes(dir, filename, content) == (filename :> content) @@ dir

\* get_image_path after the download: raise_for_status and the value returned
DownloadOutcome(resp, filename) ==
    IF resp.kind = "raise" THEN Raise("ConnectionError")
    ELSE IF ~resp.ok THEN Raise("HTTPError")
    ELSE Return(PathOf(filename))

Append1(seq, x) == IF seq # <<>> /\ seq[Len(seq)] = x THEN seq ELSE Append(seq, x)

CountUp(n) == IF n < PollCap THEN n + 1 ELSE n

\* a success answer whose body holds no outputs for job id
NoOutputsYet(resp, id) ==
    /\ resp.kind = "response"
    /\ resp.ok
    /\ resp.body.json
    /\ (id \notin DOMAIN resp.body.val \/ "outputs" \notin DOMAIN resp.body.val[id])

\* requests answers that count as a failed poll: no connection, or a status
\* that is not a success
FailedPoll(resp) == resp.kind = "raise" \/ (resp.kind = "response" /\ ~resp.ok)

-----------------------------------------------------------------------------
(* The template directory *)

GraphSDXL ==
    ("3" :> [class_type |-> "KSampler", inputs |-> SamplerInputs])
    @@ ("5" :> [class_type |-> "EmptyLatentImage",
                inputs |-> [width |-> 512, height |-> 768, batch_size |-> 1]])
    @@ ("6" :> (("class_type" :> "CLIPTextEncode") @@ ("inputs" :> TextInputs)
                @@ ("_meta" :> [title |-> "Positive"])))
    @@ ("7" :> (("class_type" :> "CLIPTextEncode") @@ ("inputs" :> TextInputs)
                @@ ("_meta" :> [title |-> "CLIP Text Encode (Negative Prompt)"])))

GraphNoSampler ==
    ("_meta" :> [description |-> "SD3 latent, no sampler"])
    @@ ("5" :> [class_type |-> "EmptySD3LatentImage",
             inputs |-> [width |-> 512, height |-> 768, batch_size |-> 1]])
    @@ ("Prompt_1" :> [class_type |-> "CLIPTextEncode", inputs |-> TextInputs])

\* a directory that is not there has no files
NoDirectory == [exists |-> FALSE, files |-> EmptyDict]

Directory(files) == [exists |-> TRUE, files |-> files]

\* the template directories the calls run against
WorkflowDirs ==
    {Directory(("qwen_text2img.json" :> Json(GraphSDXL))
               @@ ("broken.json" :> NotJson)
               @@ ("README.md" :> NotJson)),
     Directory("text2img_sdxl.json" :> Json(GraphNoSampler))}

WorkflowNames == {"qwen_text2img.json", "text2img_sdxl.json", "broken.json"}

\* the output directory before the call: x.png is there already
OutputDirs == {("x.png" :> "old bytes")}

-----------------------------------------------------------------------------
(* One call of generate, or of wait_for_completion *)

CallAtRest ==
    /\ entry = "none"
    /\ pc = "idle"
    /\ workflow_name = "none"
    /\ loaded = None
    /\ prompt_id = "none"
    /\ timeout = 0
    /\ start_time = 0
    /\ now = 0
    /\ history = None
    /\ result = None
    /\ subResp = NoResp
    /\ pollResp = NoResp
    /\ viewResp = NoResp
    /\ nPost = 0
    /\ nPoll = 0
    /\ nView = 0
    /\ posted = {}
    /\ polled = {}
    /\ pollAfterFail = FALSE
    /\ onlyPending = TRUE
    /\ begun = <<>>
    /\ viewReq = None

\* the bridge's variables, at rest
BridgeAtRest ==
    /\ bpc = "idle"
    /\ argv = None
    /\ ret = None
    /\ out = None
    /\ exit_code = -1
    /\ statsResp = NoResp
    /\ queueResp = NoResp

\* no generate calls run side by side
ConcAtRest ==
    /\ calls = EmptyDict
    /\ writes = <<>>

InitCall ==
    /\ CallAtRest
    /\ BridgeAtRest
    /\ ConcAtRest
    /\ workflow_dir \in WorkflowDirs
    /\ output_dir \in OutputDirs

\* the update_workflow_params variables, at rest
InjectIdle ==
    /\ template = EmptyDict
    /\ wf1 = EmptyDict
    /\ wf2 = EmptyDict
    /\ done1 = FALSE
    /\ done2 = FALSE

\* generate(prompt, negative_prompt, width, height, steps, cfg, workflow_name)
CallGenerate ==
    /\ pc = "idle"
    /\ \E name \in WorkflowNames : workflow_name' = name
    /\ entry' = "generate"
    /\ pc' = "load"
    /\ UNCHANGED <<cvars, bvars, ivars, workflow_dir, loaded, prompt_id, timeout, start_time,
                   now, history, result, subResp, pollResp, viewReq, viewResp, nPost,
                   nPoll, nView, posted, polled, pollAfterFail, onlyPending, begun,
                   output_dir>>

\* line 141: workflow = self.load_workflow(workflow_name)
Load ==
    /\ pc = "load"
    /\ begun' = Append(begun, "load")
    /\ LET r == load_workflow(workflow_dir, workflow_name)
       IN  IF r.kind = "raise"
           THEN /\ result' = r
                /\ pc' = "done"
                /\ UNCHANGED loaded
           ELSE /\ loaded' = r
                /\ pc' = "inject"
                /\ UNCHANGED result
    /\ UNCHANGED <<cvars, bvars, ivars, entry, workflow_dir, workflow_name, prompt_id, timeout,
                   start_time, now, history, subResp, pollResp, viewReq, viewResp, nPost,
                   nPoll, nView, posted, polled, pollAfterFail, onlyPending, output_dir>>

\* lines 142-144: workflow = self.update_workflow_params(workflow, ...)
Inject ==
    /\ pc = "inject"
    /\ begun' = Append(begun, "inject")
    /\ \E seeds \in [SamplerIds(loaded.value) -> RandomSeeds] :
          loaded' = Return(update_workflow_params(loaded.value, request, seeds))
    /\ pc' = "submit"
    /\ UNCHANGED <<cvars, bvars, ivars, entry, workflow_dir, workflow_name, prompt_id, timeout,
                   start_time, now, history, result, subResp, pollResp, viewReq, viewResp,
                   nPost, nPoll, nView, posted, polled, pollAfterFail, onlyPending,
                   output_dir>>

\* line 147: prompt_id = self.queue_prompt(workflow), and on its return the
\* entry into wait_for_completion(prompt_id) with the default timeout (line 77)
Submit ==
    /\ pc = "submit"
    /\ begun' = Append(begun, "submit")
    /\ nPost' = nPost + 1
    /\ posted' = posted \cup {loaded.value}
    /\ \E resp \in SubmitResponses :
          /\ subResp' = resp
          /\ LET r == queue_prompt(resp)
             IN  IF r.kind = "raise"
                 THEN /\ result' = r
                      /\ pc' = "done"
                      /\ UNCHANGED <<prompt_id, timeout, start_time>>
                 ELSE /\ prompt_id' = r.value
                      /\ timeout' = DefaultTimeout
                      /\ start_time' = now
                      /\ pc' = "wait"
                      /\ UNCHANGED result
    /\ UNCHANGED <<cvars, bvars, ivars, entry, workflow_dir, workflow_name, loaded, history, now,
                   pollResp, viewReq, viewResp, nPoll, nView, polled, pollAfterFail, onlyPending,
                   output_dir>>

\* wait_for_completion(prompt_id, timeout) called on its own; line 77
CallWait ==
    /\ pc = "idle"
    /\ \E id \in JobIds, t \in Timeouts, t0 \in 0..MaxPollDur :
          /\ prompt_id' = id
          /\ timeout' = t
          /\ now' = t0
          /\ start_time' = t0
    /\ entry' = "wait"
    /\ pc' = "wait"
    /\ UNCHANGED <<cvars, bvars, ivars, workflow_dir, workflow_name, loaded, history, result,
                   subResp, pollResp, viewReq, viewResp, nPost, nPoll, nView, posted,
                   polled, pollAfterFail, onlyPending, begun, output_dir>>

\* lines 79-80: the while test holds and GET /history/<prompt_id> is sent
PollStart ==
    /\ pc = "wait"
    /\ BeforeDeadline(now, start_time, timeout)
    /\ begun' = Append1(begun, "poll")
    /\ nPoll' = CountUp(nPoll)
    /\ polled' = polled \cup {prompt_id}
    /\ pollAfterFail' = (pollAfterFail \/ FailedPoll(pollResp))
    /\ pc' = "recv"
    /\ UNCHANGED <<cvars, bvars, ivars, entry, workflow_dir, workflow_name, loaded, prompt_id,
                   timeout, start_time, now, history, result, subResp, pollResp,
                   viewReq, viewResp, nPost, nView, posted, onlyPending, output_dir>>

\* lines 79, 90: the while test fails and TimeoutError is raised
WaitTimeout ==
    /\ pc = "wait"
    /\ ~BeforeDeadline(now, start_time, timeout)
    /\ result' = Raise("TimeoutError")
    /\ pc' = "done"
    /\ UNCHANGED <<cvars, bvars, ivars, entry, workflow_dir, workflow_name, loaded, prompt_id,
                   timeout, start_time, now, history, subResp, pollResp,
                   viewReq, viewResp, nPost, nPoll, nView, posted, polled, pollAfterFail, onlyPending,
                   begun, output_dir>>

\* lines 80-86: the answer to GET /history/<prompt_id> arrives
PollRecv ==
    /\ pc = "recv"
    /\ \E resp \in PollResponses(prompt_id), d \in 0..MaxPollDur :
          /\ pollResp' = resp
          /\ onlyPending' = (onlyPending /\ NoOutputsYet(resp, prompt_id))
          /\ now' = now + d
          /\ LET r == PollOutcome(resp, prompt_id)
             IN  CASE r.kind = "raise" ->
                        /\ result' = r
                        /\ pc' = "done"
                        /\ UNCHANGED history
                   [] r.kind = "return" ->
                        /\ history' = r
                        /\ IF entry = "wait"
                           THEN result' = r /\ pc' = "done"
                           ELSE pc' = "fetch" /\ UNCHANGED result
                   [] OTHER ->
                        /\ pc' = "sleep"
                        /\ UNCHANGED <<history, result>>
    /\ UNCHANGED <<cvars, bvars, ivars, entry, workflow_dir, workflow_name, loaded, prompt_id,
                   timeout, start_time, subResp, viewReq, viewResp, nPost, nPoll, nView,
                   posted, polled, pollAfterFail, begun, output_dir>>

\* line 88: time.sleep(2)
Sleep ==
    /\ pc = "sleep"
    /\ now' = now + PollInterval
    /\ pc' = "wait"
    /\ UNCHANGED <<cvars, bvars, ivars, entry, workflow_dir, workflow_name, loaded, prompt_id,
                   timeout, start_time, history, result, subResp, pollResp,
                   viewReq, viewResp, nPost, nPoll, nView, posted, polled, pollAfterFail, onlyPending,
                   begun, output_dir>>

\* lines 151-155: image_path = self.get_image_path(history), and generate's end
Fetch ==
    /\ pc = "fetch"
    /\ begun' = Append(begun, "fetch")
    /\ pc' = "done"
    /\ LET imgs == ImageInfos(Get(history.value, "outputs", <<>>))
       IN  IF imgs = <<>>
           THEN /\ result' = Raise("ValueError")
                /\ UNCHANGED <<viewReq, viewResp, nView, output_dir>>
           ELSE \E resp \in ViewResponses :
                   /\ viewReq' = [filename |-> Head(imgs).filename,
                                  subfolder |-> Get(Head(imgs), "subfolder", ""),
                                  type |-> "output"]
                   /\ viewResp' = resp
                   /\ nView' = nView + 1
                   /\ result' = DownloadOutcome(resp, Head(imgs).filename)
                   /\ IF result'.kind = "return"
                      THEN output_dir' =
                              write_bytes(output_dir, Head(imgs).filename, resp.content)
                      ELSE UNCHANGED output_dir
    /\ UNCHANGED <<cvars, bvars, ivars, entry, workflow_dir, workflow_name, loaded, prompt_id,
                   timeout, start_time, now, history, subResp, pollResp, nPost,
                   nPoll, polled, posted, pollAfterFail, onlyPending>>

WaitLoop == PollStart \/ WaitTimeout \/ PollRecv \/ Sleep

\* wait_for_completion called on its own
InitWait == InitCall /\ InjectIdle /\ request = None

NextWait == CallWait \/ WaitLoop

SpecWait == InitWait /\ [][NextWait]_vars

\* every request sent is answered, and the interpreter runs every step
FairWait == SpecWait /\ WF_vars(NextWait)

\* generate
InitGen == InitCall /\ InjectIdle /\ request \in Requests

NextGen == CallGenerate \/ Load \/ Inject \/ Submit \/ WaitLoop \/ Fetch

SpecGen == InitGen /\ [][NextGen]_vars

-----------------------------------------------------------------------------
(* Properties of wait_for_completion and generate *)

WaitRunning == pc \in {"wait", "recv", "sleep"}

EntryHasOutputsKey(resp, id) ==
    /\ resp.kind = "response"
    /\ resp.body.json
    /\ id \in DOMAIN resp.body.val
    /\ "outputs" \in DOMAIN resp.body.val[id]

\* the answer holds an entry for job id whose outputs are not empty
EntryHasNonEmptyOutputs(resp, id) ==
    EntryHasOutputsKey(resp, id) /\ resp.body.val[id]["outputs"] # <<>>

\* a parsed answer without the job's key, or without outputs in its entry
KeyOrOutputsAbsent(resp, id) ==
    /\ resp.kind = "response"
    /\ resp.body.json
    /\ (id \notin DOMAIN resp.body.val \/ "outputs" \notin DOMAIN resp.body.val[id])

\* C2 as stated: wait_for_completion returns only on an answer whose entry for
\* the job has non-empty outputs, and polling goes on after an answer whose
\* outputs are empty.
C2_CompleteOnlyOnNonEmptyOutputs ==
    /\ history.kind = "return" => EntryHasNonEmptyOutputs(pollResp, prompt_id)
    /\ (pc = "done" /\ result.kind = "return" /\ entry = "wait") =>
           EntryHasNonEmptyOutputs(pollResp, prompt_id)

\* C2, amended: wait_for_completion returns only on an answer whose entry for
\* the job has an "outputs" key, empty or not, and it returns that entry; after
\* an answer without the key or without outputs in the entry it returns nothing
\* and goes to sleep for the next poll.
C2_CompleteOnlyOnOutputsKey ==
    [][pc = "recv" =>
         /\ (history' # history) =>
               /\ EntryHasOutputsKey(pollResp', prompt_id)
               /\ history' = Return(pollResp'.body.val[prompt_id])
         /\ EntryHasOutputsKey(pollResp', prompt_id) => history' # history
         /\ KeyOrOutputsAbsent(pollResp', prompt_id) =>
               /\ pc' = "sleep"
               /\ history' = history
               /\ result' = result]_vars

\* wait_for_completion has returned an entry whose outputs are empty
C2_Witness ==
    /\ entry = "wait"
    /\ pc = "done"
    /\ result.kind = "return"
    /\ result.value["outputs"] = <<>>
    /\ nPoll > 1

\* what a failed request surfaces as
TransportErrors == {"ConnectionError", "HTTPError", "JSONDecodeError"}

\* C3: a failed poll (no connection, or a status that is not a success) ends
\* the call on that poll with a transport error, and no poll follows it.
C3_FailedPollIsFatal ==
    /\ ~pollAfterFail
    /\ (FailedPoll(pollResp) /\ pc # "recv") =>
           /\ pc = "done"
           /\ result.kind = "raise"
           /\ result.exc \in TransportErrors

StepOrder == <<"load", "inject", "submit", "poll", "fetch">>

TemplateLoads ==
    /\ workflow_name \in DOMAIN workflow_dir.files
    /\ workflow_dir.files[workflow_name].json

SubmissionAccepted ==
    /\ subResp.kind = "response"
    /\ subResp.ok
    /\ subResp.body.json
    /\ "prompt_id" \in DOMAIN subResp.body.val

\* the exceptions each step raises
StepFailures(step) ==
    CASE step = "load" -> {"FileNotFoundError", "JSONDecodeError"}
      [] step = "submit" -> {"ConnectionError", "HTTPError", "JSONDecodeError", "KeyError"}
      [] step = "poll" -> {"ConnectionError", "JSONDecodeError", "TimeoutError"}
      [] step = "fetch" -> {"ConnectionError", "HTTPError", "ValueError"}
      [] OTHER -> {}

\* C4: generate begins its steps in the order load, inject, submit, poll,
\* fetch; nothing is posted when the template does not load, nothing is polled
\* when the submission is not accepted, nothing is downloaded unless polling
\* returned the job's entry, a path is returned only after a download that
\* succeeded, and an exception raised is one of the last step begun.
C4_GenerateStepsInOrder ==
    entry = "generate" =>
        /\ Len(begun) <= Len(StepOrder)
        /\ begun = SubSeq(StepOrder, 1, Len(begun))
        /\ ~TemplateLoads => (nPost = 0 /\ nPoll = 0 /\ nView = 0)
        /\ (pc = "done" /\ ~TemplateLoads) =>
               result = Raise(IF workflow_name \in DOMAIN workflow_dir.files
                              THEN "JSONDecodeError" ELSE "FileNotFoundError")
        /\ (nPost > 0 /\ ~WaitRunning /\ pc # "fetch" /\ ~SubmissionAccepted) =>
               /\ pc = "done"
               /\ result.kind = "raise"
        /\ ~SubmissionAccepted => (nPoll = 0 /\ nView = 0)
        /\ nView > 0 =>
               /\ history.kind = "return"
               /\ EntryHasOutputsKey(pollResp, prompt_id)
        /\ result.kind = "return" =>
               /\ begun = StepOrder
               /\ nView = 1
               /\ viewResp.kind = "response"
               /\ viewResp.ok
               /\ result.value.name \in DOMAIN output_dir
        /\ result.kind = "raise" =>
               /\ pc = "done"
               /\ result.exc \in StepFailures(begun[Len(begun)])
        /\ pc = "done" => result.kind \in {"return", "raise"}

\* generate has returned a path after polling more than once
C4_Witness ==
    /\ entry = "generate"
    /\ pc = "done"
    /\ result.kind = "return"
    /\ begun = StepOrder
    /\ nPoll > 1
    /\ output_dir[result.value.name] = viewResp.content

\* C5: a generate call posts at most one submission, exactly one once the
\* template has loaded, whatever failed afterwards, and polls no job id but
\* the one its submission returned.
C5_OneJobPerGenerate ==
    entry = "generate" =>
        /\ nPost <= 1
        /\ Cardinality(posted) = nPost
        /\ (TemplateLoads /\ pc \in {"wait", "recv", "sleep", "fetch", "done"}) => nPost = 1
        /\ polled # {} => (SubmissionAccepted
                           /\ polled = {subResp.body.val["prompt_id"]})
        /\ (WaitRunning \/ pc = "fetch") => prompt_id = subResp.body.val["prompt_id"]

\* generate ended by the timeout, having posted once and polled one job only
C5_Witness ==
    /\ entry = "generate"
    /\ pc = "done"
    /\ result = Raise("TimeoutError")
    /\ nPost = 1
    /\ nPoll = PollCap
    /\ polled = {"job-b"}

\* C15: wait_for_completion tests the deadline only before it starts a poll.
\* A poll is started only with the elapsed time below the timeout, and
\* TimeoutError is raised only by that test, with the timeout reached; an
\* answer that holds the job's outputs makes the call return the job's entry
\* whatever the elapsed time is when it arrives; and with a timeout of zero
\* or less no poll is sent, and the call ends with TimeoutError.
C15_DeadlineTestedBeforePollOnly ==
    [][entry' = "wait" =>
         /\ (pc = "wait" /\ pc' = "recv") => now - start_time < timeout
         /\ (result' # result /\ result' = Raise("TimeoutError")) =>
               /\ pc = "wait"
               /\ now - start_time >= timeout
               /\ now' = now
         /\ (pc = "recv" /\ EntryHasOutputsKey(pollResp', prompt_id)) =>
               /\ pc' = "done"
               /\ result' = Return(pollResp'.body.val[prompt_id])
         /\ timeout' <= 0 =>
               /\ nPoll' = 0
               /\ pc' # "recv"
               /\ pc' = "done" => result' = Raise("TimeoutError")]_vars

\* a call has returned the job's entry from its first poll, started before
\* the deadline and answered after it
C15_Witness ==
    /\ entry = "wait"
    /\ pc = "done"
    /\ result.kind = "return"
    /\ timeout > 0
    /\ nPoll = 1
    /\ now - start_time > timeout

\* a call with timeout zero has ended with TimeoutError without a poll
C15_WitnessNoPoll ==
    /\ entry = "wait"
    /\ pc = "done"
    /\ timeout = 0
    /\ nPoll = 0
    /\ result = Raise("TimeoutError")

\* the output nodes that hold at least one image
ImageBearing(outputs) ==
    {i \in 1..Len(outputs) :
        "images" \in DOMAIN outputs[i] /\ outputs[i]["images"] # <<>>}

\* the first image of the first image-bearing output node
FirstImageOf(outputs) ==
    LET i == CHOOSE k \in ImageBearing(outputs) :
                 \A j \in ImageBearing(outputs) : k <= j
    IN  outputs[i]["images"][1]

\* generate has run its last step, the retrieval of the image
Fetched ==
    /\ entry = "generate"
    /\ pc = "done"
    /\ begun # <<>>
    /\ begun[Len(begun)] = "fetch"

\* dir is an initial output directory in which the file name now holds content
\* and nothing else differs
OneFileWritten(dir, name, content) ==
    \E old \in OutputDirs :
        /\ DOMAIN dir = DOMAIN old \cup {name}
        /\ dir[name] = content
        /\ \A f \in DOMAIN old \ {name} : dir[f] = old[f]

\* C11: the retrieval step of generate scans the job's outputs in the
\* engine's order and retrieves only the first image of the first node that
\* holds one: it sends at most one download request, and a successful
\* download writes exactly one file, named by the engine's filename under
\* the output directory, holding exactly the downloaded bytes and replacing
\* a file of that name; when no output node holds an image it fails with
\* ValueError having downloaded and written nothing (a failed download
\* writes nothing either).
C11_FetchFirstImageOnly ==
    /\ nView <= 1
    /\ ~Fetched => (nView = 0 /\ output_dir \in OutputDirs)
    /\ Fetched =>
          LET outs == Get(history.value, "outputs", <<>>)
          IN  IF ImageBearing(outs) = {}
              THEN /\ result = Raise("ValueError")
                   /\ nView = 0
                   /\ output_dir \in OutputDirs
              ELSE /\ nView = 1
                   /\ viewReq.filename = FirstImageOf(outs).filename
                   /\ IF result.kind = "return"
                      THEN /\ viewResp.kind = "response" /\ viewResp.ok
                           /\ result.value.name = FirstImageOf(outs).filename
                           /\ result.value.dir = "outputs/comfyui"
                           /\ OneFileWritten(output_dir, result.value.name,
                                             viewResp.content)
                      ELSE /\ result.kind = "raise"
                           /\ output_dir \in OutputDirs

\* several nodes hold images, an earlier node holds none, and the first
\* image of the first image-bearing node was downloaded and written next to
\* the file that was already there
C11_Witness ==
    /\ Fetched
    /\ result.kind = "return"
    /\ Cardinality(ImageBearing(history.value["outputs"])) > 1
    /\ 1 \notin ImageBearing(history.value["outputs"])
    /\ result.value.name = "y.png"
    /\ output_dir["y.png"] = viewResp.content
    /\ output_dir["x.png"] = "old bytes"

-----------------------------------------------------------------------------
(* Two generate calls side by side *)

(* Each call is generate_image's client.generate(...) on a ComfyUIClient of *)
(* its own (line 214): its locals are its own, and the calls meet in the    *)
(* engine and in the output directory only.  The clocks are left out: the   *)
(* first while test of wait_for_completion holds (the timeout is            *)
(* DefaultTimeout), a later one may fail.  A request and its answer are one *)
(* step.  Path.write_bytes is open(mode='wb'), which empties the file, and  *)
(* then a write at the start of the file; another call's steps may fall     *)
(* between the two.                                                         *)

Callers == {"A", "B"}

\* generate's default workflow_name, line 123
DefaultWorkflowName == "qwen_text2img.json"

\* a call's locals when generate is entered with request req
Entered(req) ==
    [pc |-> "load", request |-> req, workflow |-> None, prompt_id |-> "none",
     history |-> None, download |-> None, result |-> None,
     posted |-> {}, polled |-> {}]

\* open(mode='wb'): the file is created or emptied
open_wb(dir, filename) == (filename :> "") @@ dir

\* f.write(data) through a handle opened at the start of the file: bytes
\* already there beyond the data stay
write_at_start(dir, filename, content) ==
    LET old == dir[filename]
    IN  (filename :> (content \o (IF Len(old) > Len(content)
                                  THEN SubSeq(old, Len(content) + 1, Len(old))
                                  ELSE "")))
        @@ dir

\* the job ids the engine has given out
IssuedIds == {calls[c].prompt_id : c \in Callers} \ {"none"}

\* line 141
ConcLoad(c) ==
    /\ calls[c].pc = "load"
    /\ LET r == load_workflow(workflow_dir, DefaultWorkflowName)
       IN  calls' = [calls EXCEPT ![c] =
                       IF r.kind = "raise"
                       THEN [@ EXCEPT !.result = r, !.pc = "done"]
                       ELSE [@ EXCEPT !.workflow = r, !.pc = "inject"]]
    /\ UNCHANGED <<ivars, gvars, bvars, writes>>

\* lines 142-144
ConcInject(c) ==
    /\ calls[c].pc = "inject"
    /\ \E seeds \in [SamplerIds(calls[c].workflow.value) -> RandomSeeds] :
          calls' = [calls EXCEPT ![c] =
                      [@ EXCEPT !.workflow =
                                   Return(update_workflow_params(
                                            calls[c].workflow.value,
                                            calls[c].request, seeds)),
                                !.pc = "submit"]]
    /\ UNCHANGED <<ivars, gvars, bvars, writes>>

\* line 147; the engine gives every prompt it accepts an id of its own
ConcSubmit(c) ==
    /\ calls[c].pc = "submit"
    /\ \E resp \in SubmitResponses :
          LET r == queue_prompt(resp)
          IN  /\ r.kind = "return" => r.value \notin IssuedIds
              /\ calls' = [calls EXCEPT ![c] =
                             IF r.kind = "raise"
                             THEN [@ EXCEPT !.posted = @ \cup {calls[c].workflow.value},
                                            !.result = r, !.pc = "done"]
                             ELSE [@ EXCEPT !.posted = @ \cup {calls[c].workflow.value},
                                            !.prompt_id = r.value, !.pc = "wait"]]
    /\ UNCHANGED <<ivars, gvars, bvars, writes>>

\* lines 79-88: one pass of the loop of wait_for_completion
ConcPoll(c) ==
    /\ calls[c].pc = "wait"
    /\ \E resp \in PollResponses(calls[c].prompt_id) :
          LET r == PollOutcome(resp, calls[c].prompt_id)
          IN  calls' = [calls EXCEPT ![c] =
                          IF r.kind = "raise"
                          THEN [@ EXCEPT !.polled = @ \cup {calls[c].prompt_id},
                                         !.result = r, !.pc = "done"]
                          ELSE IF r.kind = "return"
                          THEN [@ EXCEPT !.polled = @ \cup {calls[c].prompt_id},
                                         !.history = r, !.pc = "fetch"]
                          ELSE [@ EXCEPT !.polled = @ \cup {calls[c].prompt_id}]]
    /\ UNCHANGED <<ivars, gvars, bvars, writes>>

\* lines 79, 90: a while test after the first fails
ConcTimeout(c) ==
    /\ calls[c].pc = "wait"
    /\ calls[c].polled # {}
    /\ calls' = [calls EXCEPT ![c] =
                    [@ EXCEPT !.result = Raise("TimeoutError"), !.pc = "done"]]
    /\ UNCHANGED <<ivars, gvars, bvars, writes>>

\* lines 94-106 and 153-154: the download, or the end without an image
ConcFetch(c) ==
    /\ calls[c].pc = "fetch"
    /\ LET imgs == ImageInfos(Get(calls[c].history.value, "outputs", <<>>))
       IN  IF imgs = <<>>
           THEN calls' = [calls EXCEPT ![c] =
                            [@ EXCEPT !.result = Raise("ValueError"), !.pc = "done"]]
           ELSE \E resp \in ViewResponses :
                   LET r == DownloadOutcome(resp, Head(imgs).filename)
                   IN  calls' = [calls EXCEPT ![c] =
                                   IF r.kind = "raise"
                                   THEN [@ EXCEPT !.result = r, !.pc = "done"]
                                   ELSE [@ EXCEPT !.download =
                                                     [name |-> Head(imgs).filename,
                                                      content |-> resp.content],
                                                  !.pc = "open"]]
    /\ UNCHANGED <<ivars, gvars, bvars, writes>>

\* line 109, first half: write_bytes opens the file
ConcOpen(c) ==
    /\ calls[c].pc = "open"
    /\ output_dir' = open_wb(output_dir, calls[c].download.name)
    /\ calls' = [calls EXCEPT ![c] = [@ EXCEPT !.pc = "write"]]
    /\ UNCHANGED <<ivars, bvars, writes, entry, pc, workflow_dir, workflow_name,
                   loaded, prompt_id, timeout, start_time, now, history, result,
                   subResp, pollResp, viewReq, viewResp, nPost, nPoll, nView,
                   posted, polled, pollAfterFail, onlyPending, begun>>

\* line 109, second half, and line 111: write_bytes writes, generate returns
ConcWrite(c) ==
    /\ calls[c].pc = "write"
    /\ output_dir' = write_at_start(output_dir, calls[c].download.name,
                                    calls[c].download.content)
    /\ writes' = Append(writes, [caller |-> c,
                                 name |-> calls[c].download.name,
                                 content |-> calls[c].download.content])
    /\ calls' = [calls EXCEPT ![c] =
                    [@ EXCEPT !.result = Return(PathOf(calls[c].download.name)),
                              !.pc = "done"]]
    /\ UNCHANGED <<ivars, bvars, entry, pc, workflow_dir, workflow_name,
                   loaded, prompt_id, timeout, start_time, now, history, result,
                   subResp, pollResp, viewReq, viewResp, nPost, nPoll, nView,
                   posted, polled, pollAfterFail, onlyPending, begun>>

InitConc ==
    /\ CallAtRest
    /\ BridgeAtRest
    /\ InjectIdle
    /\ request = None
    /\ workflow_dir \in WorkflowDirs
    /\ output_dir \in OutputDirs
    /\ calls \in [Callers -> {Entered(req) : req \in Requests}]
    /\ writes = <<>>

NextConc ==
    \E c \in Callers :
        \/ ConcLoad(c)
        \/ ConcInject(c)
        \/ ConcSubmit(c)
        \/ ConcPoll(c)
        \/ ConcTimeout(c)
        \/ ConcFetch(c)
        \/ ConcOpen(c)
        \/ ConcWrite(c)

SpecConc == InitConc /\ [][NextConc]_vars

\* a graph holds the request's parameters wherever update_workflow_params
\* writes them, and its text encoders hold the request's texts or the
\* template's
CarriesRequest(graph, req) ==
    \A id \in DOMAIN graph :
        LET class_type == Get(graph[id], "class_type", "")
            inputs == graph[id]["inputs"]
        IN  /\ class_type = "KSampler" =>
                   (inputs["steps"] = req.steps /\ inputs["cfg"] = req.cfg)
            /\ class_type \in {"EmptyLatentImage", "EmptySD3LatentImage"} =>
                   (inputs["width"] = req.width /\ inputs["height"] = req.height)
            /\ class_type = "CLIPTextEncode" =>
                   inputs["text"] \in {req.prompt, req.negative_prompt, TextInputs.text}

\* every graph a call has submitted carries its own request, it has polled
\* no job but its own, and its job is not the other call's
OwnGraphAndJob ==
    \A c \in Callers :
        /\ \A graph \in calls[c].posted : CarriesRequest(graph, calls[c].request)
        /\ calls[c].polled \subseteq {calls[c].prompt_id}
        /\ \A d \in Callers \ {c} :
              calls[c].prompt_id # "none" => calls[c].prompt_id # calls[d].prompt_id

\* the writes made to the file name, in the order made
WritesTo(name) == SelectSeq(writes, LAMBDA w : w.name = name)

\* with both calls ended, every file written holds the bytes of the last
\* write made to it
LaterWriteWins ==
    (\A c \in Callers : calls[c].pc = "done") =>
        \A i \in 1..Len(writes) :
            output_dir[writes[i].name] =
                WritesTo(writes[i].name)[Len(WritesTo(writes[i].name))].content

\* C14 as stated: under any interleaving of two generate calls each call
\* submits a graph that carries its own request and polls its own job only,
\* and when both jobs produce the same file name the file ends up holding
\* the bytes of the write made later.
C14_IndependentButLastWriteWins ==
    /\ OwnGraphAndJob
    /\ LaterWriteWins

-----------------------------------------------------------------------------
(* The tool functions and comfyui_bridge.main *)

\* a JSON text whose value is no object (a list, a number)
JsonNoDict == [json |-> TRUE]

IsDict(body) == body.json /\ "val" \in DOMAIN body

TOOL_MAP == {"generate_image", "check_comfyui_status", "list_comfyui_workflows"}

\* the keyword parameters of each tool function
Params(tool) ==
    IF tool = "generate_image" THEN {"prompt", "size", "quality", "style"} ELSE {}

\* those without a default
Required(tool) == IF tool = "generate_image" THEN {"prompt"} ELSE {}

\* tool_func(**args) binds: args is a dict of the function's parameters
Binds(tool, body) ==
    /\ IsDict(body)
    /\ DOMAIN body.val \subseteq Params(tool)
    /\ Required(tool) \subseteq DOMAIN body.val

ToolNames == TOOL_MAP \cup {"upscale_image"}

ArgTexts ==
    {NotJson, JsonNoDict, Json(EmptyDict), Json([bogus |-> 1]),
     Json([prompt |-> "a cat"]),
     Json([prompt |-> "a cat", size |-> "512x512", quality |-> "hd",
           style |-> "vivid"]),
     Json([prompt |-> "a cat", size |-> "7x7", style |-> "plain"])}

\* generate_image, lines 196-202: the size_map lookup
SizeOf(size) ==
    CASE size = "512x512" -> <<512, 512>>
      [] size = "1024x1024" -> <<1024, 1024>>
      [] size = "1024x1792" -> <<1024, 1792>>
      [] size = "1792x1024" -> <<1792, 1024>>
      [] OTHER -> <<1024, 1024>>

\* generate_image, lines 208-211: the prompt by style
Styled(prompt, style) ==
    IF style = "vivid" THEN prompt \o ", vibrant colors, artistic, stylized"
    ELSE IF style = "natural" THEN prompt \o ", photorealistic, natural lighting"
    ELSE prompt

\* generate_image, lines 196-222: the request client.generate is called with
\* (negative_prompt and cfg are generate's defaults; cfg 7.0 is 70 tenths)
RequestOf(args) ==
    [prompt |-> Styled(args["prompt"], Get(args, "style", "natural")),
     negative_prompt |-> "blurry, low quality, distorted, deformed",
     width |-> SizeOf(Get(args, "size", "1024x1024"))[1],
     height |-> SizeOf(Get(args, "size", "1024x1024"))[2],
     steps |-> IF Get(args, "quality", "standard") = "hd" THEN 30 ELSE 20,
     cfg |-> 70]

\* generate_image, lines 226-242: the dict returned for generate's outcome
GenerateImageResult(r, req, quality, seconds) ==
    IF r.kind = "return"
    THEN [success |-> TRUE,
          image_path |-> r.value,
          image_url |-> <<"file://", r.value>>,
          prompt |-> req.prompt,
          size |-> <<req.width, "x", req.height>>,
          quality |-> quality,
          generation_time_seconds |-> seconds,
          message |-> "Generated image: " \o r.value.name]
    ELSE [success |-> FALSE,
          error |-> r.exc,
          message |-> "Image generation failed: " \o r.exc]

\* one read of check_comfyui_status: requests.get(...).json()
ReadJson(resp) ==
    IF resp.kind = "raise" THEN Raise("ConnectionError")
    ELSE IF ~resp.body.json THEN Raise("JSONDecodeError")
    ELSE Return(resp.body)

NotResponding(exc) ==
    [success |-> FALSE,
     status |-> "not_responding",
     error |-> exc,
     message |-> "ComfyUI is not responding. Start it with: ./scripts/start-comfyui.sh"]

\* a slip: the queue read's failure is taken for an empty queue
CheckStatusResultQueueOptional(stats, queue) ==
    IF ~IsDict(stats) THEN NotResponding("AttributeError")
    ELSE [success |-> TRUE,
          status |-> "running",
          queue_pending |-> IF IsDict(queue)
                            THEN Len(Get(queue.val, "queue_pending", <<>>)) ELSE 0,
          queue_running |-> IF IsDict(queue)
                            THEN Len(Get(queue.val, "queue_running", <<>>)) ELSE 0,
          system |-> [devices |-> Get(stats.val, "devices", <<>>),
                      vram_total |-> Get(Get(Get(stats.val, "system", EmptyDict),
                                             "vram", EmptyDict), "total", 0),
                      vram_free |-> Get(Get(Get(stats.val, "system", EmptyDict),
                                            "vram", EmptyDict), "free", 0)],
          message |-> "ComfyUI is running and responsive"]

\* check_comfyui_status, lines 268-287: the dict returned once both bodies are
\* parsed (.get on a body that is no dict raises AttributeError, caught)
CheckStatusResult(stats, queue) ==
    IF ~IsDict(stats) \/ ~IsDict(queue) THEN NotResponding("AttributeError")
    ELSE [success |-> TRUE,
          status |-> "running",
          queue_pending |-> Len(Get(queue.val, "queue_pending", <<>>)),
          queue_running |-> Len(Get(queue.val, "queue_running", <<>>)),
          system |-> [devices |-> Get(stats.val, "devices", <<>>),
                      vram_total |-> Get(Get(Get(stats.val, "system", EmptyDict),
                                             "vram", EmptyDict), "total", 0),
                      vram_free |-> Get(Get(Get(stats.val, "system", EmptyDict),
                                            "vram", EmptyDict), "free", 0)],
          message |-> "ComfyUI is running and responsive"]

\* Path.glob("*.json") on a file name
IsJsonName(name) == Len(name) >= 5 /\ SubSeq(name, Len(name) - 4, Len(name)) = ".json"

\* list_comfyui_workflows, lines 315-319: a file's description
DescriptionOf(content) ==
    IF ~content.json \/ ~IsDict(content) THEN "ComfyUI workflow"
    ELSE Get(Get(content.val, "_meta", EmptyDict), "description", "No description")

RECURSIVE SeqOfSet(_)
\* the files in the order glob yields them (one order stands for all)
SeqOfSet(S) ==
    IF S = {} THEN <<>>
    ELSE LET x == CHOOSE y \in S : TRUE IN <<x>> \o SeqOfSet(S \ {x})

\* a slip: a file that does not parse is left out of the listing
list_comfyui_workflowsDropsUnparsed(dir) ==
    IF ~dir.exists
    THEN [success |-> FALSE, workflows |-> <<>>,
          message |-> "Workflows directory not found"]
    ELSE LET names == SeqOfSet({n \in DOMAIN dir.files :
                                   IsJsonName(n) /\ dir.files[n].json})
             workflows == [i \in 1..Len(names) |->
                             [name |-> names[i],
                              path |-> <<"workflows", names[i]>>,
                              description |-> DescriptionOf(dir.files[names[i]])]]
         IN  [success |-> TRUE, workflows |-> workflows, count |-> Len(workflows),
              message |-> "Found ComfyUI workflow(s)"]

\* list_comfyui_workflows
list_comfyui_workflows(dir) ==
    IF ~dir.exists
    THEN [success |-> FALSE, workflows |-> <<>>,
          message |-> "Workflows directory not found"]
    ELSE LET names == SeqOfSet({n \in DOMAIN dir.files : IsJsonName(n)})
             workflows == [i \in 1..Len(names) |->
                             [name |-> names[i],
                              path |-> <<"workflows", names[i]>>,
                              description |-> DescriptionOf(dir.files[names[i]])]]
         IN  [success |-> TRUE, workflows |-> workflows, count |-> Len(workflows),
              message |-> "Found ComfyUI workflow(s)"]

\* main, lines 57-67: what is printed for the tool's outcome, and the exit status
Printed(r, tool, args) ==
    IF r.kind = "return" THEN [printed |-> r.value, code |-> 0]
    ELSE [printed |-> [success |-> FALSE, error |-> r.exc, tool |-> tool,
                       args |-> args],
          code |-> 1]

\* the answers of GET /system_stats and GET /queue
StatsResponses ==
    {ConnFail, Resp(TRUE, NotJson), Resp(TRUE, JsonNoDict),
     Resp(FALSE, Json([error |-> "internal"])),
     Resp(TRUE, Json(EmptyDict)),
     Resp(TRUE, Json([devices |-> <<"cuda:0">>,
                      system |-> [vram |-> [total |-> 24, free |-> 10]]]))}

QueueResponses ==
    {ConnFail, Resp(FALSE, NotJson), Resp(TRUE, JsonNoDict),
     Resp(FALSE, Json([error |-> "internal"])),
     Resp(TRUE, Json(EmptyDict)),
     Resp(TRUE, Json([queue_pending |-> <<"p1", "p2">>, queue_running |-> <<"r1">>]))}

\* main, lines 27-54: the argument checks, up to the call of tool_func
Main ==
    /\ bpc = "idle"
    /\ \E given \in BOOLEAN, tool \in ToolNames, text \in ArgTexts :
          /\ argv' = [given |-> given, tool_name |-> tool, args_json |-> text]
          /\ IF ~given
             THEN /\ out' = [success |-> FALSE,
                             error |-> "Usage: comfyui_bridge.py <tool_name> '<args_json>'"]
                  /\ exit_code' = 1
                  /\ bpc' = "done"
                  /\ UNCHANGED ret
             ELSE IF ~text.json
             THEN /\ out' = [success |-> FALSE, error |-> "Invalid JSON arguments"]
                  /\ exit_code' = 1
                  /\ bpc' = "done"
                  /\ UNCHANGED ret
             ELSE IF tool \notin TOOL_MAP
             THEN /\ out' = [success |-> FALSE, error |-> "Unknown tool: " \o tool,
                             available_tools |-> TOOL_MAP]
                  /\ exit_code' = 1
                  /\ bpc' = "done"
                  /\ UNCHANGED ret
             ELSE IF ~Binds(tool, text)
             THEN /\ ret' = Raise("TypeError")
                  /\ out' = Printed(ret', tool, text).printed
                  /\ exit_code' = Printed(ret', tool, text).code
                  /\ bpc' = "done"
             ELSE /\ bpc' = "call"
                  /\ UNCHANGED <<ret, out, exit_code>>
    /\ UNCHANGED <<cvars, ivars, gvars, statsResp, queueResp>>

\* generate_image, lines 194-222: up to the call of client.generate
GenerateImageBegin ==
    /\ bpc = "call"
    /\ argv.tool_name = "generate_image"
    /\ request' = RequestOf(argv.args_json.val)
    /\ workflow_name' = "qwen_text2img.json"
    /\ entry' = "generate"
    /\ pc' = "load"
    /\ bpc' = "tool"
    /\ UNCHANGED <<cvars, template, wf1, wf2, done1, done2, workflow_dir, loaded,
                   prompt_id, timeout, start_time, now, history, result, subResp,
                   pollResp, viewReq, viewResp, nPost, nPoll, nView, posted,
                   polled, pollAfterFail, onlyPending, begun, output_dir, argv,
                   ret, out, exit_code, statsResp, queueResp>>

\* generate_image, lines 224-242, and main's print of its result
GenerateImageEnd ==
    /\ bpc = "tool"
    /\ pc = "done"
    /\ ret' = Return(GenerateImageResult(result, request,
                                         Get(argv.args_json.val, "quality", "standard"),
                                         now - start_time))
    /\ out' = Printed(ret', argv.tool_name, argv.args_json).printed
    /\ exit_code' = Printed(ret', argv.tool_name, argv.args_json).code
    /\ bpc' = "done"
    /\ UNCHANGED <<cvars, ivars, gvars, argv, statsResp, queueResp>>

\* check_comfyui_status, lines 258-262: the read of /system_stats
CheckStatusStats ==
    /\ bpc = "call"
    /\ argv.tool_name = "check_comfyui_status"
    /\ \E resp \in StatsResponses :
          /\ statsResp' = resp
          /\ IF ReadJson(resp).kind = "raise"
             THEN /\ ret' = Return(NotResponding(ReadJson(resp).exc))
                  /\ out' = Printed(ret', argv.tool_name, argv.args_json).printed
                  /\ exit_code' = Printed(ret', argv.tool_name, argv.args_json).code
                  /\ bpc' = "done"
             ELSE /\ bpc' = "queue"
                  /\ UNCHANGED <<ret, out, exit_code>>
    /\ UNCHANGED <<cvars, ivars, gvars, argv, queueResp>>

\* check_comfyui_status, lines 265-287: the read of /queue and the result
CheckStatusQueue ==
    /\ bpc = "queue"
    /\ \E resp \in QueueResponses :
          /\ queueResp' = resp
          /\ ret' = IF ReadJson(resp).kind = "raise"
                    THEN Return(NotResponding(ReadJson(resp).exc))
                    ELSE Return(CheckStatusResult(ReadJson(statsResp).value,
                                                  ReadJson(resp).value))
          /\ out' = Printed(ret', argv.tool_name, argv.args_json).printed
          /\ exit_code' = Printed(ret', argv.tool_name, argv.args_json).code
          /\ bpc' = "done"
    /\ UNCHANGED <<cvars, ivars, gvars, argv, statsResp>>

\* list_comfyui_workflows, and main's print of its result
ListWorkflows ==
    /\ bpc = "call"
    /\ argv.tool_name = "list_comfyui_workflows"
    /\ ret' = Return(list_comfyui_workflows(workflow_dir))
    /\ out' = Printed(ret', argv.tool_name, argv.args_json).printed
    /\ exit_code' = Printed(ret', argv.tool_name, argv.args_json).code
    /\ bpc' = "done"
    /\ UNCHANGED <<cvars, ivars, gvars, argv, statsResp, queueResp>>

\* one run of the bridge
InitBridge ==
    /\ CallAtRest
    /\ BridgeAtRest
    /\ ConcAtRest
    /\ InjectIdle
    /\ request = None
    /\ workflow_dir \in WorkflowDirs \cup {NoDirectory}
    /\ output_dir \in OutputDirs

NextBridge ==
    \/ Main
    \/ GenerateImageBegin
    \/ Load \/ Inject \/ Submit \/ WaitLoop \/ Fetch
    \/ GenerateImageEnd
    \/ CheckStatusStats
    \/ CheckStatusQueue
    \/ ListWorkflows

SpecBridge == InitBridge /\ [][NextBridge]_vars

\* the file names and the file contents list_comfyui_workflows is run over
FileNames == {"a.json", "b.json", "notes.txt"}

FileContents == {NotJson, JsonNoDict, Json(GraphSDXL), Json(GraphNoSampler)}

ListDirs ==
    {NoDirectory}
    \cup {Directory(f) : f \in UNION {[S -> FileContents] : S \in SUBSET FileNames}}

\* list_comfyui_workflows called on its own
CallList ==
    /\ bpc = "idle"
    /\ ret' = Return(list_comfyui_workflows(workflow_dir))
    /\ bpc' = "done"
    /\ UNCHANGED <<cvars, ivars, gvars, argv, out, exit_code, statsResp, queueResp>>

InitList ==
    /\ CallAtRest
    /\ BridgeAtRest
    /\ ConcAtRest
    /\ InjectIdle
    /\ request = None
    /\ workflow_dir \in ListDirs
    /\ output_dir = EmptyDict

NextList == CallList

SpecList == InitList /\ [][NextList]_vars

-----------------------------------------------------------------------------
(* Properties of the tool boundary *)

ToolFailed ==
    \/ ~argv.args_json.json
    \/ argv.tool_name \notin TOOL_MAP
    \/ ret.kind = "raise"
    \/ (argv.tool_name = "generate_image" /\ result.kind = "raise")

\* C6: every run of the bridge on a tool name and an argument text prints a
\* result with a boolean success and a message, success being false whenever
\* the request was refused or the tool failed.
C6_ResultHasSuccessAndMessage ==
    (bpc = "done" /\ argv.given) =>
        /\ "success" \in DOMAIN out
        /\ out["success"] \in BOOLEAN
        /\ "message" \in DOMAIN out
        /\ ToolFailed => ~out["success"]

\* a read of the status probe that failed in transport: no connection (or the
\* 5 s timeout), or a body that is no JSON
ReadFailed(resp) ==
    resp.kind = "raise" \/ (resp.kind = "response" /\ ~resp.body.json)

\* a read that was answered with a JSON object
ReadSucceeded(resp) == resp.kind = "response" /\ IsDict(resp.body)

TemplateFiles == {n \in DOMAIN workflow_dir.files : IsJsonName(n)}

\* C12: over a directory that exists, list_comfyui_workflows succeeds and
\* returns exactly one entry for every template file, whether or not the
\* file parses: a file that is not JSON, or not a JSON object, is listed with
\* the description "ComfyUI workflow", and count is the number of template
\* files.
C12_ListKeepsUnparsedFiles ==
    (bpc = "done" /\ workflow_dir.exists) =>
        /\ ret.kind = "return"
        /\ ret.value["success"] = TRUE
        /\ ret.value["count"] = Cardinality(TemplateFiles)
        /\ Len(ret.value["workflows"]) = Cardinality(TemplateFiles)
        /\ {ret.value["workflows"][i].name : i \in 1..Len(ret.value["workflows"])}
               = TemplateFiles
        /\ \A i \in 1..Len(ret.value["workflows"]) :
               LET w == ret.value["workflows"][i]
               IN  ~IsDict(workflow_dir.files[w.name]) =>
                       w.description = "ComfyUI workflow"

\* a directory with one template that parses, one that does not and a file
\* that is no template has been listed: two entries, the fallback among them
C12_Witness ==
    /\ bpc = "done"
    /\ workflow_dir.exists
    /\ DOMAIN workflow_dir.files = FileNames
    /\ workflow_dir.files["a.json"] = Json(GraphNoSampler)
    /\ workflow_dir.files["b.json"] = NotJson
    /\ ret.value["count"] = 2
    /\ \E i, j \in 1..2 :
          /\ ret.value["workflows"][i] =
                 [name |-> "a.json", path |-> <<"workflows", "a.json">>,
                  description |-> "SD3 latent, no sampler"]
          /\ ret.value["workflows"][j].name = "b.json"
          /\ ret.value["workflows"][j].description = "ComfyUI workflow"

-----------------------------------------------------------------------------
(* update_workflow_params on two fresh loads of one template *)

InitInject ==
    /\ template \in Graphs
    /\ request \in Requests
    /\ wf1 = template
    /\ wf2 = template
    /\ done1 = FALSE
    /\ done2 = FALSE
    /\ CallAtRest
    /\ workflow_dir = NoDirectory
    /\ output_dir = EmptyDict
    /\ BridgeAtRest
    /\ ConcAtRest

Inject1 ==
    /\ ~done1
    /\ \E seeds \in [SamplerIds(wf1) -> RandomSeeds] :
          wf1' = update_workflow_params(wf1, request, seeds)
    /\ done1' = TRUE
    /\ UNCHANGED <<template, request, wf2, done2, gvars, bvars, cvars>>

Inject2 ==
    /\ ~done2
    /\ \E seeds \in [SamplerIds(wf2) -> RandomSeeds] :
          wf2' = update_workflow_params(wf2, request, seeds)
    /\ done2' = TRUE
    /\ UNCHANGED <<template, request, wf1, done1, gvars, bvars, cvars>>

NextInject == Inject1 \/ Inject2

SpecInject == InitInject /\ [][NextInject]_vars

-----------------------------------------------------------------------------
(* Properties of update_workflow_params *)

\* node.get("_meta", {}).get("title", "")
TitleOf(node) == Get(Get(node, "_meta", EmptyDict), "title", "")

ClassOf(node) == Get(node, "class_type", "")

\* The role by the rule "title first": "negative" in the title means negative,
\* "positive" or "prompt" in the title means positive, and the identifier is
\* consulted for "prompt" only when the title has none of the three.
TitleFirstRole(node_id, meta_title) ==
    IF Contains("negative", Lower(meta_title)) THEN "negative"
    ELSE IF Contains("positive", Lower(meta_title))
            \/ Contains("prompt", Lower(meta_title)) THEN "positive"
    ELSE IF Contains("prompt", Lower(node_id)) THEN "positive"
    ELSE "none"

\* C8: after update_workflow_params every text encoder whose role resolves,
\* title first and identifier only for an uninformative title, to positive has
\* inputs.text = prompt, and every one that resolves to negative has
\* inputs.text = negative_prompt.
C8_TitleFirstRoleDecidesText ==
    done1 =>
        \A id \in DOMAIN wf1 :
            ClassOf(wf1[id]) = "CLIPTextEncode" =>
                LET role == TitleFirstRole(id, TitleOf(wf1[id]))
                IN  /\ role = "positive" => wf1[id]["inputs"]["text"] = request.prompt
                    /\ role = "negative" =>
                           wf1[id]["inputs"]["text"] = request.negative_prompt

\* C9: after update_workflow_params every KSampler node has the request's
\* steps and cfg and a seed in [0, 2^32 - 1], and every node of a latent-image
\* class type has the request's width and height.
C9_SamplerAndLatentWritten ==
    done1 =>
        \A id \in DOMAIN wf1 :
            LET inputs == wf1[id]["inputs"]
            IN  /\ ClassOf(wf1[id]) = "KSampler" =>
                       /\ inputs["steps"] = request.steps
                       /\ inputs["cfg"] = request.cfg
                       /\ SeedInRange(inputs["seed"])
                /\ ClassOf(wf1[id]) \in {"EmptyLatentImage", "EmptySD3LatentImage"} =>
                       /\ inputs["width"] = request.width
                       /\ inputs["height"] = request.height

\* a graph with a sampler and a latent node of the size-variant class type has
\* been injected
C9_Witness ==
    /\ done1
    /\ \E id \in DOMAIN wf1 :
          /\ ClassOf(wf1[id]) = "KSampler"
          /\ template[id]["inputs"]["steps"] # request.steps
          /\ wf1[id]["inputs"]["seed"] = <<Two16 - 1, Two16 - 1>>
    /\ \E id \in DOMAIN wf1 :
          /\ ClassOf(wf1[id]) = "EmptySD3LatentImage"
          /\ template[id]["inputs"]["width"] # request.width

\* a node without its inputs.seed
WithoutSeed(node) ==
    [node EXCEPT !["inputs"] =
        [k \in (DOMAIN node["inputs"]) \ {"seed"} |-> node["inputs"][k]]]

\* C10: two fresh loads of one template, injected with the same request, have
\* the same node identifiers and equal nodes, the KSampler nodes compared
\* without inputs.seed.
C10_TwoLoadsEqualExceptSeed ==
    (done1 /\ done2) =>
        /\ DOMAIN wf1 = DOMAIN wf2
        /\ \A id \in DOMAIN wf1 :
              IF ClassOf(wf1[id]) = "KSampler"
              THEN WithoutSeed(wf1[id]) = WithoutSeed(wf2[id])
              ELSE wf1[id] = wf2[id]

\* both loads are injected, a sampler got two different seeds, and a text
\* encoder and a latent node were rewritten
C10_Witness ==
    /\ done1
    /\ done2
    /\ \E id \in DOMAIN wf1 :
          /\ ClassOf(wf1[id]) = "KSampler"
          /\ wf1[id]["inputs"]["seed"] # wf2[id]["inputs"]["seed"]
    /\ \E id \in DOMAIN wf1 : wf1[id] # template[id] /\ ClassOf(wf1[id]) # "KSampler"

\* the input keys update_workflow_params is to write at a node
WrittenKeys(node_id, node) ==
    IF ClassOf(node) = "CLIPTextEncode"
    THEN IF TitleFirstRole(node_id, TitleOf(node)) = "none" THEN {} ELSE {"text"}
    ELSE IF ClassOf(node) \in {"EmptyLatentImage", "EmptySD3LatentImage"}
    THEN {"width", "height"}
    ELSE IF ClassOf(node) = "KSampler" THEN {"steps", "cfg", "seed"}
    ELSE {}

\* the input keys at which two versions of a node differ
ChangedKeys(old, new) ==
    {k \in DOMAIN old["inputs"] \cup DOMAIN new["inputs"] :
        \/ k \notin DOMAIN old["inputs"]
        \/ k \notin DOMAIN new["inputs"]
        \/ old["inputs"][k] # new["inputs"][k]}

\* a node apart from its inputs
WithoutInputs(node) == [f \in (DOMAIN node) \ {"inputs"} |-> node[f]]

\* C13: update_workflow_params adds and removes no node, changes nothing of
\* a node but input keys it is to write (text at a text encoder whose role
\* resolves, width and height at a latent node, steps, cfg and seed at a
\* KSampler), so nodes of other kinds and text encoders without a role stay
\* as they were; and on a template without a KSampler no node has a seed,
\* steps or cfg input afterwards that it did not have before.
C13_OnlySpecifiedKeysWritten ==
    done1 =>
        /\ DOMAIN wf1 = DOMAIN template
        /\ \A id \in DOMAIN template :
              /\ WithoutInputs(wf1[id]) = WithoutInputs(template[id])
              /\ DOMAIN template[id]["inputs"] \subseteq DOMAIN wf1[id]["inputs"]
              /\ ChangedKeys(template[id], wf1[id]) \subseteq WrittenKeys(id, template[id])
              /\ WrittenKeys(id, template[id]) = {} => wf1[id] = template[id]
        /\ (\A id \in DOMAIN template : ClassOf(template[id]) # "KSampler") =>
              \A id \in DOMAIN template :
                  \A k \in {"seed", "steps", "cfg"} \cap DOMAIN wf1[id]["inputs"] :
                      /\ k \in DOMAIN template[id]["inputs"]
                      /\ wf1[id]["inputs"][k] = template[id]["inputs"][k]

\* a template without a KSampler has been injected: its latent node got the
\* request's size and kept batch_size, and its text encoder without a role
\* is as it was
C13_Witness ==
    /\ done1
    /\ \A id \in DOMAIN template : ClassOf(template[id]) # "KSampler"
    /\ \E id \in DOMAIN template :
          /\ ClassOf(template[id]) = "EmptyLatentImage"
          /\ ChangedKeys(template[id], wf1[id]) = {"width", "height"}
          /\ wf1[id]["inputs"]["batch_size"] = 1
    /\ \E id \in DOMAIN template :
          /\ ClassOf(template[id]) = "CLIPTextEncode"
          /\ WrittenKeys(id, template[id]) = {}
          /\ wf1[id] = template[id]

====
